---- MODULE Spec2Model ----
(***************************************************************************)
(* DawgLog::Logger: the lock-protected fan-out of a log call to the        *)
(* (sink, formatter) targets, the target-management operations, the      *)
(* metrics registry guarded by the same mutex, and the process-wide       *)
(* singleton with the Config its init calls take.                         *)
(*                                                                         *)
(* Each public operation of the Logger is run by a thread in steps: the    *)
(* construction of the std::lock_guard, the statements of the body, and    *)
(* the return or throw, which destroys the guard and releases the mutex.   *)
(* A thread's arguments and locals live in loc[t] while it is inside an    *)
(* operation; result is what the operation that finished last returned or  *)
(* threw, and to which thread.                                             *)
(***************************************************************************)
EXTENDS Integers, Sequences, FiniteSets, TLC

VARIABLES
    targets_,            \* Logger::targets_, std::vector<Target>
    app_name_,           \* Logger::app_name_
    m_,                  \* Logger::m_: 0 when free, else the owning thread
    families_,           \* Logger::families_: name -> registered family type
    histogram_buckets_,  \* Logger::histogram_buckets_: name -> boundaries
    summary_quantiles_,  \* Logger::summary_quantiles_: name -> quantiles
    metrics,             \* the metric instances of each family, by label set
    pc,                  \* per thread: the statement it is at
    loc,                 \* per thread: arguments and locals of its operation
    result,              \* the outcome of the operation that finished last
    out,                 \* every Sink::write made, in the order made
    lost,                \* the writes among them that the sink failed to
                         \* deliver
    history,             \* per log call: its arguments, the targets_ it found
                         \* when it took the lock, and its outcome
    nops,                \* operations started so far
    nmut,                \* target-management operations among them
    registered,          \* the arguments of every add_metric that returned
    rejected,            \* the names an add_metric refused as unsupported
    logger,              \* the file-scope std::unique_ptr<Logger> logger:
                         \* 0 when null, else the Logger it owns
    loggers,             \* the Loggers init and instance() have made
    accesses,            \* every reference instance() has returned
    overlapped           \* whether an instance() call has run while another
                         \* thread was inside instance() or init

vars == <<targets_, app_name_, m_, families_, histogram_buckets_,
          summary_quantiles_, metrics, pc, loc, result, out, lost,
          history, nops, nmut, registered, rejected, logger, loggers, accesses,
          overlapped>>

logVars == <<targets_, out, lost, history, nmut>>
metricVars == <<families_, histogram_buckets_, summary_quantiles_, metrics,
                registered, rejected>>
singletonVars == <<logger, loggers, accesses, overlapped>>

(***************************************************************************)
(* Bounds of the model.                                                    *)
(***************************************************************************)
NumThreads == 2
MaxOps == 3

Threads == 1..NumThreads

(***************************************************************************)
(* Values.                                                                 *)
(***************************************************************************)
NULL == "null"
FREE == 0

\* A SinkPtr is NULL or a sink ("console", "syslog"); a FormatterPtr is NULL
\* or a formatter ("text", "json").
Target(sink, formatter) == [sink |-> sink, formatter |-> formatter]

SourceLocation == "demo_main.cpp:16"

\* The arguments of the log calls: a format template as the pieces fmt's
\* parser sees (literal text, the replacement field "{}", the escapes "{{"
\* and "}}", a stray brace) and the arguments to substitute.
LogArg(lvl, tag, tmpl, args) ==
    [lvl |-> lvl, tag |-> tag, tmpl |-> tmpl, args |-> args]

LogArgs == { LogArg("INFO", "ingest", <<"ingest step ", "{}">>, <<1>>),
             LogArg("WARNING", "", <<"{}", "-", "{}">>, <<32, 7>>),
             LogArg("INFO", "", <<"{{", "ok", "}}">>, <<1>>),
             LogArg("WARNING", "ingest", <<"{}", "-", "{}">>, <<1>>),
             LogArg("INFO", "ingest", <<"bad ", "{">>, <<>>) }

(***************************************************************************)
(* fmt::format(fmt::runtime(fmt_str), args...): every "{}" is replaced by  *)
(* the next argument, "{{" and "}}" are the escaped braces, and a stray    *)
(* brace or a field with no argument left throws fmt::format_error.        *)
(* Arguments that no field uses are ignored.                               *)
(***************************************************************************)
RECURSIVE FormatFrom(_, _, _, _)
FormatFrom(tmpl, args, k, acc) ==
    IF tmpl = <<>> THEN [ok |-> TRUE, msg |-> acc]
    ELSE LET piece == Head(tmpl)
         IN  CASE piece = "{}" ->
                    IF k > Len(args) THEN [ok |-> FALSE, msg |-> ""]
                    ELSE FormatFrom(Tail(tmpl), args, k + 1,
                                    acc \o ToString(args[k]))
               [] piece = "{{" -> FormatFrom(Tail(tmpl), args, k, acc \o "{")
               [] piece = "}}" -> FormatFrom(Tail(tmpl), args, k, acc \o "}")
               [] piece \in {"{", "}"} -> [ok |-> FALSE, msg |-> ""]
               [] OTHER -> FormatFrom(Tail(tmpl), args, k, acc \o piece)

Format(tmpl, args) == FormatFrom(tmpl, args, 1, "")

Record(lvl, tag, src, app, msg) ==
    [level |-> lvl, tag |-> tag, src |-> src, app_name |-> app, message |-> msg]

(***************************************************************************)
(* Formatter::format(record): a pure function of the record.  The text     *)
(* rendering is one line of the fields, the JSON rendering an object with  *)
(* the fields as keys.                                                     *)
(***************************************************************************)
FormatterFormat(formatter, rec) ==
    CASE formatter = "text" ->
             <<"[" \o rec.level \o "] [" \o rec.tag \o "] " \o rec.src \o " "
               \o rec.app_name \o ": " \o rec.message>>
      [] formatter = "json" ->
             <<"level", rec.level, "tag", rec.tag, "src", rec.src,
               "app_name", rec.app_name, "message", rec.message>>
      [] OTHER -> <<>>

\* Sink::write(record, representation): one call of a sink.  It returns
\* whether or not the record got to its destination: the console delivers,
\* the syslog transport can fail, and the failure stays in the sink.
WriteOutcomes(sink) == IF sink = "syslog" THEN {TRUE, FALSE} ELSE {TRUE}

SinkWrite(log, call, pos, target, rec, rep) ==
    Append(log, [call |-> call, pos |-> pos, sink |-> target.sink,
                 formatter |-> target.formatter, rec |-> rec, rep |-> rep])

(***************************************************************************)
(* Config: the sink type, the formatter type and the app name, loaded from *)
(* a JSON file.  A file is one that cannot be opened, or one that holds    *)
(* text that is not JSON, a JSON value that is not an object, or a JSON    *)
(* object with some of the keys "sink", "format" and "app_name".           *)
(***************************************************************************)
Config(sink, format, app_name) ==
    [sink |-> sink, format |-> format, app_name |-> app_name]
NoConfig == Config("", "", "")

File(open, kind, obj) == [open |-> open, kind |-> kind, obj |-> obj]
NoFile == File(FALSE, "", <<>>)

ConfigFiles ==
    { File(FALSE, "", <<>>),
      File(TRUE, "garbage", <<>>),
      File(TRUE, "array", <<>>),
      File(TRUE, "object", <<>>),
      File(TRUE, "object", "format" :> "json"),
      File(TRUE, "object",
           ("sink" :> "syslog") @@ ("format" :> "json")
               @@ ("app_name" :> "demo")) }

\* nlohmann::json::value(key, default) on an object.
JsonValue(j, key, default) == IF key \in DOMAIN j THEN j[key] ELSE default

\* string_to_sink_type, string_to_formatter_type
string_to_sink_type(str) == IF str = "syslog" THEN "SYSLOG" ELSE "CONSOLE"
string_to_formatter_type(str) == IF str = "json" THEN "JSON" ELSE "TEXT"

(***************************************************************************)
(* Thread-local state.                                                     *)
(***************************************************************************)
NoLoc == [call |-> 0, lvl |-> "", tag |-> "", tmpl |-> <<>>, args |-> <<>>,
          msg |-> "", i |-> 0, sink |-> NULL, formatter |-> NULL,
          targets |-> <<>>, name |-> "", type |-> "", buckets |-> <<>>,
          quantiles |-> <<>>, action |-> "", value |-> 0, labels |-> "",
          file |-> NoFile, cfg |-> NoConfig, ref |-> 0, created |-> FALSE]

NoResult == [kind |-> "none", type |-> "", what |-> ""]
Returned(what) == [kind |-> "returned", type |-> "", what |-> what]
Thrown(type, what) == [kind |-> "thrown", type |-> type, what |-> what]
ResultTo(t, res) == [thread |-> t, res |-> res]

\* std::lock_guard<std::mutex> lock(m_): blocks until the mutex is free.
LockGuardNoWait(t) == m_' = t
LockGuard(t) == m_ = FREE /\ m_' = t

\* ~lock_guard on return or throw: the mutex is released.
Unlock(t) == m_' = FREE

Finish(t, res) ==
    /\ pc' = [pc EXCEPT ![t] = "idle"]
    /\ loc' = [loc EXCEPT ![t] = NoLoc]
    /\ result' = ResultTo(t, res)
    /\ Unlock(t)

(***************************************************************************)
(* Logger::log                                                             *)
(***************************************************************************)
\* The call's outcome goes to its caller.
LogFinish(t, res) ==
    /\ Finish(t, res)
    /\ history' = [history EXCEPT ![loc[t].call].result = res]

\* log: std::lock_guard<std::mutex> lock(m_) comes before everything else.
LogCallNoWait(t, lvl, tag, tmpl, args) ==
    /\ pc[t] = "idle"
    /\ nops < MaxOps
    /\ LockGuardNoWait(t)
    /\ nops' = nops + 1
    /\ history' = Append(history, [arg |-> LogArg(lvl, tag, tmpl, args),
                                   targets |-> targets_,
                                   result |-> NoResult])
    /\ pc' = [pc EXCEPT ![t] = "log_format"]
    /\ loc' = [loc EXCEPT ![t] = [NoLoc EXCEPT !.call = Len(history) + 1,
                                               !.lvl = lvl, !.tag = tag,
                                               !.tmpl = tmpl, !.args = args]]
    /\ UNCHANGED <<targets_, app_name_, result, out, lost, nmut>>
    /\ UNCHANGED metricVars
    /\ UNCHANGED singletonVars

LogCall(t, lvl, tag, tmpl, args) ==
    /\ pc[t] = "idle"
    /\ nops < MaxOps
    /\ LockGuard(t)
    /\ nops' = nops + 1
    /\ history' = Append(history, [arg |-> LogArg(lvl, tag, tmpl, args),
                                   targets |-> targets_,
                                   result |-> NoResult])
    /\ pc' = [pc EXCEPT ![t] = "log_format"]
    /\ loc' = [loc EXCEPT ![t] = [NoLoc EXCEPT !.call = Len(history) + 1,
                                               !.lvl = lvl, !.tag = tag,
                                               !.tmpl = tmpl, !.args = args]]
    /\ UNCHANGED <<targets_, app_name_, result, out, lost, nmut>>
    /\ UNCHANGED metricVars
    /\ UNCHANGED singletonVars

\* msg = fmt::format(...): a format_error leaves log through the guard.
LogFormatThrowKeepsLock(t) ==
    /\ pc[t] = "log_format"
    /\ LET f == Format(loc[t].tmpl, loc[t].args)
       IN  IF f.ok
           THEN /\ pc' = [pc EXCEPT ![t] = "log_dispatch"]
                /\ loc' = [loc EXCEPT ![t].msg = f.msg, ![t].i = 1]
                /\ UNCHANGED <<m_, result>>
                /\ UNCHANGED history
           ELSE /\ pc' = [pc EXCEPT ![t] = "idle"]
                /\ loc' = [loc EXCEPT ![t] = NoLoc]
                /\ result' = ResultTo(t, Thrown("fmt::format_error", ""))
                /\ history' = [history EXCEPT ![loc[t].call].result =
                                   Thrown("fmt::format_error", "")]
                /\ UNCHANGED m_
    /\ UNCHANGED <<targets_, app_name_, out, lost, nops, nmut>>
    /\ UNCHANGED metricVars
    /\ UNCHANGED singletonVars

LogFormatGoesOn(t) ==
    /\ pc[t] = "log_format"
    /\ LET f == Format(loc[t].tmpl, loc[t].args)
       IN  /\ pc' = [pc EXCEPT ![t] = "log_dispatch"]
           /\ loc' = [loc EXCEPT ![t].msg = f.msg, ![t].i = 1]
           /\ UNCHANGED <<m_, result>>
           /\ UNCHANGED history
    /\ UNCHANGED <<targets_, app_name_, out, lost, nops, nmut>>
    /\ UNCHANGED metricVars
    /\ UNCHANGED singletonVars

LogFormat(t) ==
    /\ pc[t] = "log_format"
    /\ LET f == Format(loc[t].tmpl, loc[t].args)
       IN  IF f.ok
           THEN /\ pc' = [pc EXCEPT ![t] = "log_dispatch"]
                /\ loc' = [loc EXCEPT ![t].msg = f.msg, ![t].i = 1]
                /\ UNCHANGED <<m_, result>>
                /\ UNCHANGED history
           ELSE LogFinish(t, Thrown("fmt::format_error", ""))
    /\ UNCHANGED <<targets_, app_name_, out, lost, nops, nmut>>
    /\ UNCHANGED metricVars
    /\ UNCHANGED singletonVars

\* if (!target.sink || !target.formatter) continue;
SkippedIfBothNull(target) == target.sink = NULL /\ target.formatter = NULL
Skipped(target) == target.sink = NULL \/ target.formatter = NULL

\* auto rec = Record{lvl, tag, src, this->app_name_, msg};
LogRecordOfTemplate(t) ==
    Record(loc[t].lvl, loc[t].tag, SourceLocation, "DawgLog",
           IF loc[t].tmpl = <<>> THEN "" ELSE Head(loc[t].tmpl))
LogRecord(t) ==
    Record(loc[t].lvl, loc[t].tag, SourceLocation, app_name_, loc[t].msg)

\* One iteration of the loop over targets_: the write is made once and the
\* loop goes on whatever became of it.
LogDispatchThrows(t) ==
    /\ pc[t] = "log_dispatch"
    /\ loc[t].i <= Len(targets_)
    /\ LET target == targets_[loc[t].i]
           rec == LogRecord(t)
       IN  IF Skipped(target)
           THEN /\ UNCHANGED <<out, lost, m_, pc, result, history>>
                /\ loc' = [loc EXCEPT ![t].i = loc[t].i + 1]
           ELSE /\ out' = SinkWrite(out, loc[t].call, loc[t].i, target, rec,
                                    FormatterFormat(target.formatter, rec))
                /\ \E delivered \in WriteOutcomes(target.sink) :
                       IF delivered
                       THEN /\ UNCHANGED <<lost, m_, pc, result, history>>
                            /\ loc' = [loc EXCEPT ![t].i = loc[t].i + 1]
                       ELSE /\ lost' = lost \cup {Len(out) + 1}
                            /\ LogFinish(t, Thrown("std::runtime_error",
                                                   "write failed"))
    /\ UNCHANGED <<targets_, app_name_, nops, nmut>>
    /\ UNCHANGED metricVars
    /\ UNCHANGED singletonVars

LogDispatch(t) ==
    /\ pc[t] = "log_dispatch"
    /\ loc[t].i <= Len(targets_)
    /\ LET target == targets_[loc[t].i]
           rec == LogRecord(t)
       IN  IF Skipped(target)
           THEN UNCHANGED <<out, lost>>
           ELSE /\ out' = SinkWrite(out, loc[t].call, loc[t].i, target, rec,
                                    FormatterFormat(target.formatter, rec))
                /\ \E delivered \in WriteOutcomes(target.sink) :
                       lost' = IF delivered THEN lost
                               ELSE lost \cup {Len(out) + 1}
    /\ loc' = [loc EXCEPT ![t].i = loc[t].i + 1]
    /\ UNCHANGED <<targets_, app_name_, m_, pc, result, history, nops, nmut>>
    /\ UNCHANGED metricVars
    /\ UNCHANGED singletonVars

\* return msg
LogReturn(t) ==
    /\ pc[t] = "log_dispatch"
    /\ loc[t].i > Len(targets_)
    /\ LogFinish(t, Returned(loc[t].msg))
    /\ UNCHANGED <<targets_, app_name_, out, lost, nops, nmut>>
    /\ UNCHANGED metricVars
    /\ UNCHANGED singletonVars

(***************************************************************************)
(* Target management                                                       *)
(***************************************************************************)
MutationCall(t, op) ==
    /\ pc[t] = "idle"
    /\ nops < MaxOps
    /\ LockGuard(t)
    /\ nops' = nops + 1
    /\ nmut' = nmut + 1
    /\ pc' = [pc EXCEPT ![t] = op]
    /\ UNCHANGED <<targets_, app_name_, result, out, lost, history>>
    /\ UNCHANGED metricVars
    /\ UNCHANGED singletonVars

MutationDone(t, newTargets) ==
    /\ targets_' = newTargets
    /\ Finish(t, Returned(""))
    /\ UNCHANGED <<app_name_, out, lost, history, nops, nmut>>
    /\ UNCHANGED metricVars
    /\ UNCHANGED singletonVars

SetFormatterCall(t, fmt) ==
    /\ MutationCall(t, "set_formatter")
    /\ loc' = [loc EXCEPT ![t] = [NoLoc EXCEPT !.formatter = fmt]]

\* if (targets_.empty()) return; targets_.front().formatter = std::move(fmt);
SetFormatterLast(t) ==
    /\ pc[t] = "set_formatter"
    /\ MutationDone(t, IF targets_ = <<>> THEN targets_
                       ELSE [targets_ EXCEPT
                                ![Len(targets_)].formatter = loc[t].formatter])

SetFormatter(t) ==
    /\ pc[t] = "set_formatter"
    /\ MutationDone(t, IF targets_ = <<>> THEN targets_
                       ELSE [targets_ EXCEPT ![1].formatter = loc[t].formatter])

SetSinkCall(t, sink) ==
    /\ MutationCall(t, "set_sink")
    /\ loc' = [loc EXCEPT ![t] = [NoLoc EXCEPT !.sink = sink]]

SetSink(t) ==
    /\ pc[t] = "set_sink"
    /\ MutationDone(t, IF targets_ = <<>> THEN targets_
                       ELSE [targets_ EXCEPT ![1].sink = loc[t].sink])

\* set_targets: the lock is taken before the list is assigned.
SetTargetsCallNoLock(t, targets) ==
    /\ pc[t] = "idle"
    /\ nops < MaxOps
    /\ nops' = nops + 1
    /\ nmut' = nmut + 1
    /\ pc' = [pc EXCEPT ![t] = "set_targets"]
    /\ loc' = [loc EXCEPT ![t] = [NoLoc EXCEPT !.targets = targets]]
    /\ UNCHANGED <<targets_, app_name_, m_, result, out, lost, history>>
    /\ UNCHANGED metricVars
    /\ UNCHANGED singletonVars

SetTargetsCall(t, targets) ==
    /\ MutationCall(t, "set_targets")
    /\ loc' = [loc EXCEPT ![t] = [NoLoc EXCEPT !.targets = targets]]

SetTargets(t) ==
    /\ pc[t] = "set_targets"
    /\ MutationDone(t, loc[t].targets)

AddTargetCall(t, sink, fmt) ==
    /\ MutationCall(t, "add_target")
    /\ loc' = [loc EXCEPT ![t] = [NoLoc EXCEPT !.sink = sink,
                                               !.formatter = fmt]]

\* targets_.push_back(Target{...})
PushFront(targets, target) == <<target>> \o targets
PushBack(targets, target) == Append(targets, target)

AddTarget(t) ==
    /\ pc[t] = "add_target"
    /\ MutationDone(t, PushBack(targets_, Target(loc[t].sink, loc[t].formatter)))

(***************************************************************************)
(* Metrics.  Numbers stand for doubles in thousandths: 1000 is 1.0.        *)
(* The prometheus::Registry the families are registered in is taken to     *)
(* exist when add_metric runs: the constructor at hand does not create it, *)
(* and registry() and add_metric(name, type), which the class declares,    *)
(* are defined in a part of the metrics build that is not at hand.         *)
(***************************************************************************)
MetricNames == {"x", "y"}
MetricTypes == {"Counter", "Gauge", "Summary", "Untyped", "Histogram", "Info"}
MetricActions == {"Increment", "Decrement", "Set", "Observe"}
LabelSets == {"", "job=a"}
DefaultValue == 1000

DAWGLOG_DEFAULT_BUCKETS ==
    <<5, 10, 25, 50, 100, 250, 500, 1000, 2500, 5000, 10000>>
DAWGLOG_DEFAULT_QUANTILES == << <<500, 50>>, <<900, 10>>, <<990, 1>> >>

\* The arguments of the add_metric calls: every type with the default
\* buckets and quantiles, a histogram and a summary with their own.
AddMetricArg(name, type, buckets, quantiles) ==
    [name |-> name, type |-> type, buckets |-> buckets, quantiles |-> quantiles]

AddMetricArgs ==
    { AddMetricArg(name, type, DAWGLOG_DEFAULT_BUCKETS,
                   DAWGLOG_DEFAULT_QUANTILES) :
          name \in MetricNames, type \in MetricTypes }
    \cup { AddMetricArg(name, type, <<1000, 2000>>, << <<500, 50>> >>) :
               name \in MetricNames, type \in {"Histogram", "Summary"} }

\* The arguments of the report_metric calls: the default value and labels,
\* a negative value, a label set.
ReportMetricArg(name, action, value, labels) ==
    [name |-> name, action |-> action, value |-> value, labels |-> labels]

ReportMetricArgs ==
    { ReportMetricArg(name, action, vl[1], vl[2]) :
          name \in MetricNames, action \in MetricActions,
          vl \in {<<DefaultValue, "">>, <<-2000, "">>,
                  <<DefaultValue, "job=a">>} }

\* std::unordered_map: operator[] assignment, count/find, at.
MapSet(map, key, value) == (key :> value) @@ map
MapHas(map, key) == key \in DOMAIN map

(***************************************************************************)
(* The prometheus-cpp objects the Logger drives.  A family holds one       *)
(* metric per label set; Family::Add(labels, args...) returns the metric   *)
(* of the label set, constructing it from args when it does not exist.     *)
(***************************************************************************)
NewMetric(type, params) ==
    [type |-> type, value |-> 0, params |-> params,
     counts |-> IF type = "Histogram" THEN [k \in 1..(Len(params) + 1) |-> 0]
                ELSE IF type = "Summary" THEN <<0>> ELSE <<>>]

FamilyAdd(ms, name, labels, type, params) ==
    IF MapHas(ms, <<name, labels>>) THEN ms
    ELSE MapSet(ms, <<name, labels>>, NewMetric(type, params))

\* Counter::Increment(double): a negative amount leaves the counter as it is.
CounterIncrement(metric, value) ==
    IF value < 0 THEN metric ELSE [metric EXCEPT !.value = @ + value]

GaugeIncrement(metric, value) == [metric EXCEPT !.value = @ + value]
GaugeDecrement(metric, value) == [metric EXCEPT !.value = @ - value]
GaugeSet(metric, value) == [metric EXCEPT !.value = value]

\* Histogram::Observe: the first bucket whose upper bound is not below value.
BucketOf(bounds, value) ==
    1 + Cardinality({k \in 1..Len(bounds) : bounds[k] < value})

HistogramObserve(metric, value) ==
    [metric EXCEPT !.value = @ + value,
                   !.counts[BucketOf(metric.params, value)] = @ + 1]

\* Summary::Observe: one more sample (the quantile estimator is not modelled).
SummaryObserve(metric, value) ==
    [metric EXCEPT !.value = @ + value, !.counts[1] = @ + 1]

Apply(ms, name, labels, Op(_, _), value) ==
    [ms EXCEPT ![<<name, labels>>] = Op(@, value)]

(***************************************************************************)
(* Logger::add_metric                                                      *)
(***************************************************************************)
\* add_metric: std::lock_guard<std::mutex> lock(m_) comes first.
AddMetricCallNoWait(t, name, type, buckets, quantiles) ==
    /\ pc[t] = "idle"
    /\ nops < MaxOps
    /\ LockGuardNoWait(t)
    /\ nops' = nops + 1
    /\ pc' = [pc EXCEPT ![t] = "add_metric_check"]
    /\ loc' = [loc EXCEPT ![t] = [NoLoc EXCEPT !.name = name, !.type = type,
                                               !.buckets = buckets,
                                               !.quantiles = quantiles]]
    /\ UNCHANGED <<app_name_, result, families_, histogram_buckets_,
                   summary_quantiles_, metrics, registered, rejected>>
    /\ UNCHANGED logVars
    /\ UNCHANGED singletonVars

AddMetricCall(t, name, type, buckets, quantiles) ==
    /\ pc[t] = "idle"
    /\ nops < MaxOps
    /\ LockGuard(t)
    /\ nops' = nops + 1
    /\ pc' = [pc EXCEPT ![t] = "add_metric_check"]
    /\ loc' = [loc EXCEPT ![t] = [NoLoc EXCEPT !.name = name, !.type = type,
                                               !.buckets = buckets,
                                               !.quantiles = quantiles]]
    /\ UNCHANGED <<app_name_, result, families_, histogram_buckets_,
                   summary_quantiles_, metrics, registered, rejected>>
    /\ UNCHANGED logVars
    /\ UNCHANGED singletonVars

\* if (families_.count(name)) throw std::runtime_error(...)
NeverRegistered(name) == FALSE
AlreadyRegistered(name) == MapHas(families_, name)

AddMetricCheck(t) ==
    /\ pc[t] = "add_metric_check"
    /\ IF AlreadyRegistered(loc[t].name)
       THEN Finish(t, Thrown("std::runtime_error", "Metric already registered"))
       ELSE /\ pc' = [pc EXCEPT ![t] = "add_metric_switch"]
            /\ UNCHANGED <<m_, loc, result>>
    /\ UNCHANGED <<app_name_, nops>>
    /\ UNCHANGED metricVars
    /\ UNCHANGED logVars
    /\ UNCHANGED singletonVars

\* case MetricType::Untyped, case MetricType::Info: throw
UnsupportedUntypedOnly(type) == type = "Untyped"
Unsupported(type) == type \in {"Untyped", "Info"}

\* The cases of the switch that register a family: what each stores.
SwitchStores(name, type, buckets, quantiles) ==
    /\ families_' =
           IF type \in {"Counter", "Gauge", "Summary", "Histogram"}
           THEN MapSet(families_, name, type) ELSE families_
    /\ summary_quantiles_' =
           IF type = "Summary"
           THEN MapSet(summary_quantiles_, name, quantiles)
           ELSE summary_quantiles_
    /\ histogram_buckets_' =
           IF type = "Histogram"
           THEN MapSet(histogram_buckets_, name, buckets)
           ELSE histogram_buckets_

\* switch (type)
AddMetricSwitch(t) ==
    /\ pc[t] = "add_metric_switch"
    /\ LET name == loc[t].name
           type == loc[t].type
       IN  IF Unsupported(type)
           THEN /\ UNCHANGED <<families_, histogram_buckets_,
                               summary_quantiles_, registered>>
                /\ rejected' = rejected \cup {name}
                /\ Finish(t, Thrown("std::invalid_argument",
                                    "Unsupported metric type"))
           ELSE /\ SwitchStores(name, type, loc[t].buckets, loc[t].quantiles)
                /\ registered' =
                       Append(registered,
                              [name |-> name, type |-> type,
                               buckets |-> loc[t].buckets,
                               quantiles |-> loc[t].quantiles])
                /\ UNCHANGED rejected
                /\ Finish(t, Returned(""))
    /\ UNCHANGED <<app_name_, metrics, nops>>
    /\ UNCHANGED logVars
    /\ UNCHANGED singletonVars

(***************************************************************************)
(* Logger::report_metric                                                   *)
(***************************************************************************)
ReportMetricCall(t, name, action, value, labels) ==
    /\ pc[t] = "idle"
    /\ nops < MaxOps
    /\ LockGuard(t)
    /\ nops' = nops + 1
    /\ pc' = [pc EXCEPT ![t] = "report_metric_find"]
    /\ loc' = [loc EXCEPT ![t] = [NoLoc EXCEPT !.name = name,
                                               !.action = action,
                                               !.value = value,
                                               !.labels = labels]]
    /\ UNCHANGED <<app_name_, result, families_, histogram_buckets_,
                   summary_quantiles_, metrics, registered, rejected>>
    /\ UNCHANGED logVars
    /\ UNCHANGED singletonVars

\* auto it = families_.find(name); if (it == families_.end()) throw ...
ReportMetricFindReturns(t) ==
    /\ pc[t] = "report_metric_find"
    /\ IF ~MapHas(families_, loc[t].name)
       THEN Finish(t, Returned(""))
       ELSE /\ pc' = [pc EXCEPT ![t] = "report_metric_visit"]
            /\ UNCHANGED <<m_, loc, result>>
    /\ UNCHANGED <<app_name_, nops>>
    /\ UNCHANGED metricVars
    /\ UNCHANGED logVars
    /\ UNCHANGED singletonVars

ReportMetricFind(t) ==
    /\ pc[t] = "report_metric_find"
    /\ IF ~MapHas(families_, loc[t].name)
       THEN Finish(t, Thrown("std::runtime_error", "Unknown metric"))
       ELSE /\ pc' = [pc EXCEPT ![t] = "report_metric_visit"]
            /\ UNCHANGED <<m_, loc, result>>
    /\ UNCHANGED <<app_name_, nops>>
    /\ UNCHANGED metricVars
    /\ UNCHANGED logVars
    /\ UNCHANGED singletonVars

\* The branch of the visitor for a Counter family.
VisitCounterAnyAction(t, name, action, value, labels) ==
    /\ metrics' = Apply(FamilyAdd(metrics, name, labels, "Counter", <<>>),
                        name, labels, CounterIncrement, value)
    /\ Finish(t, Returned(""))

VisitCounter(t, name, action, value, labels) ==
    IF action = "Increment"
    THEN /\ metrics' = Apply(FamilyAdd(metrics, name, labels, "Counter", <<>>),
                             name, labels, CounterIncrement, value)
         /\ Finish(t, Returned(""))
    ELSE /\ metrics' = metrics
         /\ Finish(t, Thrown("std::invalid_argument",
                             "Counter only supports Increment"))

\* The branch for a Gauge family: the metric is looked up before the action
\* is tested.
VisitGaugeDecrementAdds(t, name, action, value, labels) ==
    LET added == FamilyAdd(metrics, name, labels, "Gauge", <<>>)
    IN  IF action \in {"Increment", "Decrement"}
        THEN /\ metrics' = Apply(added, name, labels, GaugeIncrement, value)
             /\ Finish(t, Returned(""))
        ELSE IF action = "Set"
        THEN /\ metrics' = Apply(added, name, labels, GaugeSet, value)
             /\ Finish(t, Returned(""))
        ELSE /\ metrics' = added
             /\ Finish(t, Thrown("std::invalid_argument",
                                 "Invalid action for Gauge"))

VisitGauge(t, name, action, value, labels) ==
    LET added == FamilyAdd(metrics, name, labels, "Gauge", <<>>)
    IN  CASE action = "Increment" ->
                 /\ metrics' = Apply(added, name, labels, GaugeIncrement, value)
                 /\ Finish(t, Returned(""))
          [] action = "Decrement" ->
                 /\ metrics' = Apply(added, name, labels, GaugeDecrement, value)
                 /\ Finish(t, Returned(""))
          [] action = "Set" ->
                 /\ metrics' = Apply(added, name, labels, GaugeSet, value)
                 /\ Finish(t, Returned(""))
          [] OTHER ->
                 /\ metrics' = added
                 /\ Finish(t, Thrown("std::invalid_argument",
                                     "Invalid action for Gauge"))

\* histogram_buckets_.at(name), summary_quantiles_.at(name)
BucketsDefault(name) == DAWGLOG_DEFAULT_BUCKETS
BucketsAt(name) == histogram_buckets_[name]
QuantilesAt(name) == summary_quantiles_[name]

\* The branch for a Histogram family.
VisitHistogram(t, name, action, value, labels) ==
    IF action = "Observe"
    THEN IF MapHas(histogram_buckets_, name)
         THEN /\ metrics' = Apply(FamilyAdd(metrics, name, labels, "Histogram",
                                            BucketsAt(name)),
                                  name, labels, HistogramObserve, value)
              /\ Finish(t, Returned(""))
         ELSE /\ metrics' = metrics
              /\ Finish(t, Thrown("std::out_of_range", ""))
    ELSE /\ metrics' = metrics
         /\ Finish(t, Thrown("std::invalid_argument",
                             "Histogram only supports Observe"))

\* The branch for a Summary family.
VisitSummary(t, name, action, value, labels) ==
    IF action = "Observe"
    THEN IF MapHas(summary_quantiles_, name)
         THEN /\ metrics' = Apply(FamilyAdd(metrics, name, labels, "Summary",
                                            QuantilesAt(name)),
                                  name, labels, SummaryObserve, value)
              /\ Finish(t, Returned(""))
         ELSE /\ metrics' = metrics
              /\ Finish(t, Thrown("std::out_of_range", ""))
    ELSE /\ metrics' = metrics
         /\ Finish(t, Thrown("std::invalid_argument",
                             "Summary only supports Observe"))

\* std::visit(..., it->second)
ReportMetricVisit(t) ==
    /\ pc[t] = "report_metric_visit"
    /\ LET name == loc[t].name
           action == loc[t].action
           value == loc[t].value
           labels == loc[t].labels
       IN  CASE families_[name] = "Counter" ->
                    VisitCounter(t, name, action, value, labels)
             [] families_[name] = "Gauge" ->
                    VisitGauge(t, name, action, value, labels)
             [] families_[name] = "Histogram" ->
                    VisitHistogram(t, name, action, value, labels)
             [] families_[name] = "Summary" ->
                    VisitSummary(t, name, action, value, labels)
    /\ UNCHANGED <<app_name_, families_, histogram_buckets_,
                   summary_quantiles_, nops, registered, rejected>>
    /\ UNCHANGED logVars
    /\ UNCHANGED singletonVars

(***************************************************************************)
(* Config::Config(json_path).  The Config a thread has constructed stays   *)
(* with the thread (loc[t].cfg) for its init calls.                        *)
(***************************************************************************)
\* What a thread keeps from one operation on the singleton to the next: its
\* Config and the reference instance() gave it.
Keeps(t) == [NoLoc EXCEPT !.cfg = loc[t].cfg, !.ref = loc[t].ref]

SingletonFrame ==
    /\ UNCHANGED <<app_name_, m_>>
    /\ UNCHANGED logVars
    /\ UNCHANGED metricVars

\* std::ifstream file(json_path); if (!file.is_open()) { defaults; return; }
ConfigOpen(t, file) ==
    /\ pc[t] = "idle"
    /\ IF ~file.open
       THEN /\ loc' = [loc EXCEPT ![t] =
                          [Keeps(t) EXCEPT
                              !.cfg = Config("CONSOLE", "TEXT", "DawgLog")]]
            /\ result' = ResultTo(t, Returned("Config"))
            /\ pc' = pc
       ELSE /\ loc' = [loc EXCEPT ![t] =
                          [Keeps(t) EXCEPT !.cfg = NoConfig, !.file = file]]
            /\ pc' = [pc EXCEPT ![t] = "config_parse"]
            /\ result' = result
    /\ nops < MaxOps
    /\ nops' = nops + 1
    /\ UNCHANGED <<logger, loggers, accesses, overlapped>>
    /\ SingletonFrame

\* nlohmann::json j; file >> j; sink = ...; format = ...; app_name = ...;
\* operator>> throws json::parse_error on text that is not JSON, and value()
\* throws json::type_error on a JSON value that is not an object.
ConfigParse(t) ==
    /\ pc[t] = "config_parse"
    /\ LET file == loc[t].file
       IN  CASE file.kind = "garbage" ->
                    /\ loc' = [loc EXCEPT ![t] = Keeps(t)]
                    /\ result' = ResultTo(t,
                           Thrown("nlohmann::json::parse_error", ""))
             [] file.kind = "array" ->
                    /\ loc' = [loc EXCEPT ![t] = Keeps(t)]
                    /\ result' = ResultTo(t,
                           Thrown("nlohmann::json::type_error", ""))
             [] file.kind = "object" ->
                    /\ loc' = [loc EXCEPT ![t] =
                           [Keeps(t) EXCEPT !.cfg =
                               Config(string_to_sink_type(
                                          JsonValue(file.obj, "sink", "console")),
                                      string_to_formatter_type(
                                          JsonValue(file.obj, "format", "text")),
                                      JsonValue(file.obj, "app_name", "DawgLog"))]]
                    /\ result' = ResultTo(t, Returned("Config"))
    /\ pc' = [pc EXCEPT ![t] = "idle"]
    /\ UNCHANGED <<nops, logger, loggers, accesses, overlapped>>
    /\ SingletonFrame

(***************************************************************************)
(* The singleton: std::unique_ptr<Logger> logger, the five init overloads  *)
(* and instance().  A Logger made here is an entry of loggers, with the    *)
(* Records it has dispatched and the writes made for them; a log call on   *)
(* it runs whole, as its mutex makes it.  None of init and instance()      *)
(* takes a lock.                                                           *)
(***************************************************************************)
make_formatter(type) == IF type = "JSON" THEN "json" ELSE "text"
make_sink(type, app_name) == IF type = "SYSLOG" THEN "syslog" ELSE "console"
make_target(sink_type, formatter_type, app_name) ==
    Target(make_sink(sink_type, app_name), make_formatter(formatter_type))

\* Logger(targets, app_name), and for the record which call made it.
NewLogger(targets, app_name, by) ==
    [targets |-> targets, app_name |-> app_name, alive |-> TRUE,
     records |-> <<>>, out |-> <<>>, by |-> by]

MadeBy(op, cfg, sink, formatter, targets) ==
    [op |-> op, cfg |-> cfg, sink |-> sink, formatter |-> formatter,
     targets |-> targets]

\* logger = std::make_unique<Logger>(...): the new Logger is owned and the
\* one owned before, if any, is destroyed.
Install(new) ==
    /\ loggers' = Append(IF logger = 0 THEN loggers
                         ELSE [loggers EXCEPT ![logger].alive = FALSE], new)
    /\ logger' = Len(loggers) + 1

\* The loop of Logger::log over the targets of a Logger.
RECURSIVE DispatchFrom(_, _, _, _, _)
DispatchFrom(log, targets, i, call, rec) ==
    IF i > Len(targets) THEN log
    ELSE IF Skipped(targets[i])
         THEN DispatchFrom(log, targets, i + 1, call, rec)
         ELSE DispatchFrom(SinkWrite(log, call, i, targets[i], rec,
                                     FormatterFormat(targets[i].formatter, rec)),
                           targets, i + 1, call, rec)

\* Logger::log on a Logger, from its lock_guard to its return.
LogOn(l, arg) ==
    LET f == Format(arg.tmpl, arg.args)
        rec == Record(arg.lvl, arg.tag, SourceLocation, l.app_name, f.msg)
    IN  IF ~f.ok THEN l
        ELSE [l EXCEPT !.records = Append(@, rec),
                       !.out = DispatchFrom(@, l.targets, 1,
                                            Len(l.records) + 1, rec)]

\* WARNING(text): a log call of level WARNING through Logger::instance().
WarningArg ==
    LogArg("WARNING", "",
           <<"Logger not initialized. Defaulting to console sink and text format.">>,
           <<>>)
WARNING(ls, ptr) == [ls EXCEPT ![ptr] = LogOn(@, WarningArg)]

InInstance(t) ==
    pc[t] \in {"instance_create", "instance_warning", "instance_return"}

\* Whether the call thread t starts runs while another thread is inside
\* instance().
Overlaps(t) == overlapped \/ \E u \in Threads \ {t} : InInstance(u)

\* The five overloads of init(cfg, ...): each builds the target list and
\* assigns the new Logger to logger.
InitCall(t, new) ==
    /\ pc[t] = "idle"
    /\ nops < MaxOps
    /\ loc[t].cfg # NoConfig
    /\ nops' = nops + 1
    /\ Install(new)
    /\ overlapped' = Overlaps(t)
    /\ result' = ResultTo(t, Returned(""))
    /\ UNCHANGED <<pc, loc, accesses>>
    /\ SingletonFrame

InitFormatter(t, formatter) ==
    LET cfg == loc[t].cfg
    IN  InitCall(t, NewLogger(<<Target(make_sink(cfg.sink, cfg.app_name),
                                       formatter)>>,
                              cfg.app_name,
                              MadeBy("init2", cfg, NULL, formatter, <<>>)))

InitConfig(t) ==
    LET cfg == loc[t].cfg
    IN  InitCall(t, NewLogger(<<Target(make_sink(cfg.sink, cfg.app_name),
                                       make_formatter(cfg.format))>>,
                              cfg.app_name,
                              MadeBy("init1", cfg, NULL, NULL, <<>>)))

InitSinkFromConfig(t, sink) ==
    LET cfg == loc[t].cfg
    IN  InitCall(t, NewLogger(<<Target(make_sink(cfg.sink, cfg.app_name),
                                       make_formatter(cfg.format))>>,
                              cfg.app_name,
                              MadeBy("init3", cfg, sink, NULL, <<>>)))

InitSink(t, sink) ==
    LET cfg == loc[t].cfg
    IN  InitCall(t, NewLogger(<<Target(sink, make_formatter(cfg.format))>>,
                              cfg.app_name,
                              MadeBy("init3", cfg, sink, NULL, <<>>)))

InitSinkFormatter(t, sink, formatter) ==
    LET cfg == loc[t].cfg
    IN  InitCall(t, NewLogger(<<Target(sink, formatter)>>, cfg.app_name,
                              MadeBy("init4", cfg, sink, formatter, <<>>)))

InitTargets(t, targets) ==
    LET cfg == loc[t].cfg
    IN  InitCall(t, NewLogger(targets, cfg.app_name,
                              MadeBy("init5", cfg, NULL, NULL, targets)))

\* instance(): if (!logger)
InstanceCheckAlways(t) ==
    /\ pc[t] = "idle"
    /\ nops < MaxOps
    /\ nops' = nops + 1
    /\ pc' = [pc EXCEPT ![t] = "instance_create"]
    /\ loc' = [loc EXCEPT ![t] = [Keeps(t) EXCEPT !.ref = 0]]
    /\ overlapped' = Overlaps(t)
    /\ UNCHANGED <<result, logger, loggers, accesses>>
    /\ SingletonFrame

InstanceCheck(t) ==
    /\ pc[t] = "idle"
    /\ nops < MaxOps
    /\ nops' = nops + 1
    /\ pc' = [pc EXCEPT ![t] = IF logger = 0 THEN "instance_create"
                               ELSE "instance_return"]
    /\ loc' = [loc EXCEPT ![t] = [Keeps(t) EXCEPT !.ref = 0]]
    /\ overlapped' = Overlaps(t)
    /\ UNCHANGED <<result, logger, loggers, accesses>>
    /\ SingletonFrame

\* targets.emplace_back(make_target(CONSOLE, TEXT, "DawgLog"));
\* logger = std::make_unique<Logger>(std::move(targets), "DawgLog");
InstanceCreate(t) ==
    /\ pc[t] = "instance_create"
    /\ Install(NewLogger(<<make_target("CONSOLE", "TEXT", "DawgLog")>>,
                         "DawgLog",
                         MadeBy("instance", NoConfig, NULL, NULL, <<>>)))
    /\ pc' = [pc EXCEPT ![t] = "instance_warning"]
    /\ loc' = [loc EXCEPT ![t].created = TRUE]
    /\ UNCHANGED <<result, accesses, overlapped, nops>>
    /\ SingletonFrame

\* WARNING("Logger not initialized. ...")
InstanceWarning(t) ==
    /\ pc[t] = "instance_warning"
    /\ loggers' = WARNING(loggers, logger)
    /\ pc' = [pc EXCEPT ![t] = "instance_return"]
    /\ UNCHANGED <<loc, result, logger, accesses, overlapped, nops>>
    /\ SingletonFrame

\* return *logger;
InstanceReturn(t) ==
    /\ pc[t] = "instance_return"
    /\ accesses' = Append(accesses, [ref |-> logger,
                                      created |-> loc[t].created])
    /\ loc' = [loc EXCEPT ![t] = [Keeps(t) EXCEPT !.ref = logger]]
    /\ pc' = [pc EXCEPT ![t] = "idle"]
    /\ result' = ResultTo(t, Returned("Logger&"))
    /\ UNCHANGED <<logger, loggers, overlapped, nops>>
    /\ SingletonFrame

\* A caller logs through the reference instance() returned to it, as
\* ingest.info(LOG_SRC, "ingest step {}", 1) does.  When the Logger has been
\* destroyed since, the reference dangles and the call is undefined: it
\* runs on the freed Logger, or the process stops.
LogThroughReference(t) ==
    /\ pc[t] = "idle"
    /\ nops < MaxOps
    /\ loc[t].ref # 0
    /\ nops' = nops + 1
    /\ LET arg == LogArg("INFO", "ingest", <<"ingest step ", "{}">>, <<1>>)
           ran == /\ loggers' = [loggers EXCEPT ![loc[t].ref] = LogOn(@, arg)]
                  /\ result' = ResultTo(t, Returned("ingest step 1"))
                  /\ pc' = pc
       IN  IF loggers[loc[t].ref].alive THEN ran
           ELSE \/ ran
                \/ /\ pc' = [u \in Threads |-> "crashed"]
                   /\ UNCHANGED <<loggers, result>>
    /\ UNCHANGED <<loc, logger, accesses, overlapped>>
    /\ SingletonFrame

(***************************************************************************)
(* Specifications                                                          *)
(***************************************************************************)
EmptyMap == [k \in {} |-> 0]

\* The Loggers constructed: Logger(targets, app_name).
Constructed(targets, app) == [targets |-> targets, app_name |-> app]

InitLoggers ==
    { Constructed(<<>>, "DawgLog"),
      Constructed(<<Target("console", "text")>>, "DawgLog"),
      Constructed(<<Target(NULL, "json"), Target("console", "text")>>, "demo") }

\* The arguments of the target-management calls.
FormatterArgs == {"json", NULL}
SinkArgs == {"syslog", NULL}
TargetArgs == { Target("syslog", "json"), Target("console", NULL) }
TargetListArgs == { <<>>, <<Target("syslog", NULL), Target("syslog", "text")>> }

\* The state after Logger(targets, app_name): the metrics maps are empty.
Constructs(l) ==
    /\ targets_ = l.targets
    /\ app_name_ = l.app_name
    /\ m_ = FREE
    /\ families_ = EmptyMap
    /\ histogram_buckets_ = EmptyMap
    /\ summary_quantiles_ = EmptyMap
    /\ metrics = EmptyMap
    /\ pc = [t \in Threads |-> "idle"]
    /\ loc = [t \in Threads |-> NoLoc]
    /\ result = ResultTo(0, NoResult)
    /\ out = <<>>
    /\ lost = {}
    /\ history = <<>>
    /\ nops = 0
    /\ nmut = 0
    /\ registered = <<>>
    /\ rejected = {}
    /\ logger = 0
    /\ loggers = <<>>
    /\ accesses = <<>>
    /\ overlapped = FALSE

Init == \E l \in InitLoggers : Constructs(l)

\* The metrics are exercised on the Logger with one console/text target.
InitMetrics == Constructs(Constructed(<<Target("console", "text")>>, "DawgLog"))

NextLog ==
    \E t \in Threads :
        \/ \E a \in LogArgs : LogCall(t, a.lvl, a.tag, a.tmpl, a.args)
        \/ LogFormat(t)
        \/ LogDispatch(t)
        \/ LogReturn(t)
        \/ \E fmt \in FormatterArgs : SetFormatterCall(t, fmt)
        \/ SetFormatter(t)
        \/ \E sink \in SinkArgs : SetSinkCall(t, sink)
        \/ SetSink(t)
        \/ \E targets \in TargetListArgs : SetTargetsCall(t, targets)
        \/ SetTargets(t)
        \/ \E target \in TargetArgs :
              AddTargetCall(t, target.sink, target.formatter)
        \/ AddTarget(t)

NextMetrics ==
    \E t \in Threads :
        \/ \E a \in AddMetricArgs :
              AddMetricCall(t, a.name, a.type, a.buckets, a.quantiles)
        \/ AddMetricCheck(t)
        \/ AddMetricSwitch(t)
        \/ \E a \in ReportMetricArgs :
              ReportMetricCall(t, a.name, a.action, a.value, a.labels)
        \/ ReportMetricFind(t)
        \/ ReportMetricVisit(t)

\* The arguments of the init calls.
InitSinkArgs == {"syslog"}
InitFormatterArgs == {"json"}
InitTargetListArgs ==
    { <<Target("syslog", "json"), Target("console", "text")>> }

NextSingleton ==
    \E t \in Threads :
        \/ \E file \in ConfigFiles : ConfigOpen(t, file)
        \/ ConfigParse(t)
        \/ InitConfig(t)
        \/ \E formatter \in InitFormatterArgs : InitFormatter(t, formatter)
        \/ \E sink \in InitSinkArgs : InitSink(t, sink)
        \/ \E sink \in InitSinkArgs, formatter \in InitFormatterArgs :
              InitSinkFormatter(t, sink, formatter)
        \/ \E targets \in InitTargetListArgs : InitTargets(t, targets)
        \/ InstanceCheck(t)
        \/ InstanceCreate(t)
        \/ InstanceWarning(t)
        \/ InstanceReturn(t)
        \/ LogThroughReference(t)

Next == NextLog \/ NextMetrics

Spec == Init /\ [][Next]_vars
SpecLog == Init /\ [][NextLog]_vars
SpecMetrics == InitMetrics /\ [][NextMetrics]_vars
SpecSingleton == InitMetrics /\ [][NextSingleton]_vars

\* A thread that can take a step is eventually run: a call waiting in
\* lock_guard gets the mutex once it is free, and a thread inside an
\* operation goes on to its return or throw.
SpecFair == InitMetrics /\ [][Next]_vars /\ WF_vars(Next)

(***************************************************************************)
(* Properties of Logger::log and of the target list                        *)
(***************************************************************************)
\* What the log calls of LogArgs must produce, written out by hand: the
\* message with the arguments in place of the fields, or no message when
\* fmt rejects the template.
ExpectedMessage(arg) ==
    CASE arg.tmpl = <<"ingest step ", "{}">> /\ arg.args = <<1>> ->
             "ingest step 1"
      [] arg.tmpl = <<"{}", "-", "{}">> /\ arg.args = <<32, 7>> -> "32-7"
      [] arg.tmpl = <<"{{", "ok", "}}">> -> "{ok}"
      [] OTHER -> "?"

ValidTemplate(arg) ==
    \/ arg.tmpl = <<"ingest step ", "{}">> /\ Len(arg.args) >= 1
    \/ arg.tmpl = <<"{}", "-", "{}">> /\ Len(arg.args) >= 2
    \/ arg.tmpl = <<"{{", "ok", "}}">>

Calls == 1..Len(history)
WritesOf(c) == {k \in DOMAIN out : out[k].call = c}
WritesAt(c, p) == {k \in WritesOf(c) : out[k].pos = p}
ValidTarget(target) == target.sink # NULL /\ target.formatter # NULL
ValidPositions(targets) == {p \in 1..Len(targets) : ValidTarget(targets[p])}
Done(c) == history[c].result.kind # "none"
ReturnedCall(c) == history[c].result.kind = "returned"
InLog(t) == pc[t] \in {"log_format", "log_dispatch"}

\* C1: a log call with a valid template returns the message with the
\* arguments substituted, and every target of the call that has a sink and
\* a formatter is handed a Record whose message is the returned string and
\* whose app name is the Logger's.
C1_LogReturnsSubstitutedMessage ==
    \A c \in Calls :
        LET h == history[c]
        IN  /\ ValidTemplate(h.arg) /\ Done(c) =>
                   h.result = Returned(ExpectedMessage(h.arg))
            /\ ReturnedCall(c) =>
                   /\ ValidTemplate(h.arg)
                   /\ \A p \in ValidPositions(h.targets) :
                          \E k \in WritesAt(c, p) :
                              /\ out[k].rec.message = h.result.what
                              /\ out[k].rec.app_name = app_name_
            /\ \A k \in WritesOf(c) :
                   /\ out[k].rec.message = ExpectedMessage(h.arg)
                   /\ out[k].rec.app_name = app_name_
                   /\ out[k].rec.level = h.arg.lvl
                   /\ out[k].rec.tag = h.arg.tag

C1_Witness ==
    \E c \in Calls :
        /\ history[c].result = Returned("32-7")
        /\ Cardinality(ValidPositions(history[c].targets)) = 1
        /\ app_name_ = "demo"
        /\ \E k \in WritesOf(c) : out[k].rec.message = "32-7"

\* C2: in a log call a target whose sink or formatter is null is passed
\* over, neither half of it is invoked and the call does not fail for it;
\* a finished call has written exactly once to each target that has both
\* halves, so its writes number the targets that have both.
C2_NullTargetsSkipped ==
    \A c \in Calls :
        LET h == history[c]
        IN  /\ \A k \in WritesOf(c) :
                   /\ out[k].pos \in ValidPositions(h.targets)
                   /\ out[k].sink = h.targets[out[k].pos].sink
                   /\ out[k].formatter = h.targets[out[k].pos].formatter
            /\ \A p \in 1..Len(h.targets) : Cardinality(WritesAt(c, p)) <= 1
            /\ ReturnedCall(c) =>
                   Cardinality(WritesOf(c)) =
                       Cardinality(ValidPositions(h.targets))
            /\ h.result.kind = "thrown" => ~ValidTemplate(h.arg)

C2_Witness ==
    \E c \in Calls :
        /\ ReturnedCall(c)
        /\ history[c].targets = <<Target(NULL, "json"), Target("console", "text")>>
        /\ Cardinality(WritesOf(c)) = 1
        /\ \E k \in WritesOf(c) : out[k].pos = 2

\* C3: log calls made by several threads do not overlap: while one call is
\* between taking the lock and returning no other call is, the writes are
\* made in the order in which the calls took the lock, and with the targets
\* left alone every target that has both halves has received one write from
\* each call that has got to it.
C3_ConcurrentLogsSerialized ==
    /\ \A t1, t2 \in Threads : InLog(t1) /\ InLog(t2) => t1 = t2
    /\ \A k1, k2 \in DOMAIN out : k1 < k2 => out[k1].call <= out[k2].call
    /\ nmut = 0 =>
           \A p \in ValidPositions(targets_) :
               Cardinality({k \in DOMAIN out : out[k].pos = p}) =
                   Cardinality({c \in Calls :
                       \/ ReturnedCall(c)
                       \/ \E t \in Threads : /\ pc[t] = "log_dispatch"
                                              /\ loc[t].call = c
                                              /\ loc[t].i > p})

C3_Witness ==
    /\ Len(history) = 2
    /\ ReturnedCall(1)
    /\ \E t \in Threads : /\ result.thread # t
                           /\ loc[t].call = 2
                           /\ pc[t] = "log_dispatch"
                           /\ loc[t].i > Len(targets_)
    /\ nmut = 0
    /\ Len(targets_) = 2
    /\ Len(out) = 2

\* The writes of one call go down the list.
WritesInListOrder ==
    \A k1, k2 \in DOMAIN out :
        k1 < k2 /\ out[k1].call = out[k2].call => out[k1].pos < out[k2].pos

AddTargetAppends ==
    \A t \in Threads :
        pc[t] = "add_target" /\ pc'[t] = "idle" =>
            /\ Len(targets_') = Len(targets_) + 1
            /\ \A p \in 1..Len(targets_) : targets_'[p] = targets_[p]
            /\ targets_'[Len(targets_) + 1] =
                   Target(loc[t].sink, loc[t].formatter)

SetTargetsReplaces ==
    \A t \in Threads :
        pc[t] = "set_targets" /\ pc'[t] = "idle" => targets_' = loc[t].targets

\* C4: a log call writes to its targets in the order of the list; add_target
\* puts the new target at the end, making the list one longer and leaving
\* the targets before it where they were, and set_targets makes the list the
\* one given.
C4_ListOrderAndAppend ==
    /\ []WritesInListOrder
    /\ [][AddTargetAppends /\ SetTargetsReplaces]_vars

C4_Witness ==
    \E c \in Calls :
        /\ ReturnedCall(c)
        /\ history[c].targets =
               <<Target("console", "text"), Target("syslog", "json")>>
        /\ \E k1, k2 \in WritesOf(c) :
               /\ k1 < k2
               /\ out[k1].sink = "console"
               /\ out[k2].sink = "syslog"

\* C11: set_formatter replaces the formatter of the first target and nothing
\* else, set_sink the sink of the first target and nothing else: the other
\* half of the first target, the targets after it and the length of the list
\* stay, and on an empty list both leave the list empty.
C11_SettersTouchFrontOnly ==
    [][\A t \in Threads :
           /\ pc[t] = "set_formatter" /\ pc'[t] = "idle" =>
                  IF targets_ = <<>> THEN targets_' = <<>>
                  ELSE /\ Len(targets_') = Len(targets_)
                       /\ targets_'[1].formatter = loc[t].formatter
                       /\ targets_'[1].sink = targets_[1].sink
                       /\ \A p \in 2..Len(targets_) : targets_'[p] = targets_[p]
           /\ pc[t] = "set_sink" /\ pc'[t] = "idle" =>
                  IF targets_ = <<>> THEN targets_' = <<>>
                  ELSE /\ Len(targets_') = Len(targets_)
                       /\ targets_'[1].sink = loc[t].sink
                       /\ targets_'[1].formatter = targets_[1].formatter
                       /\ \A p \in 2..Len(targets_) : targets_'[p] = targets_[p]
       ]_vars

C11_Witness ==
    /\ targets_ = <<Target(NULL, NULL), Target("console", "text")>>
    /\ nmut = 1
    /\ result.res = Returned("")

\* The list a log call found when it took the lock is the list for as long
\* as the call runs.
ListFixedDuringLog ==
    \A t \in Threads : InLog(t) => targets_ = history[loc[t].call].targets

\* A returned call wrote to the valid targets of the list it found, each
\* once, and to nothing else.
WritesMatchListFound ==
    \A c \in Calls :
        LET h == history[c]
        IN  /\ \A k \in WritesOf(c) :
                   /\ out[k].pos \in ValidPositions(h.targets)
                   /\ out[k].sink = h.targets[out[k].pos].sink
                   /\ out[k].formatter = h.targets[out[k].pos].formatter
            /\ ReturnedCall(c) =>
                   \A p \in ValidPositions(h.targets) :
                       Cardinality(WritesAt(c, p)) = 1

\* set_targets assigns the whole list in one step, which no log call is
\* inside of: every call before it has finished with the old list and every
\* call after it finds the new one.
SetTargetsBetweenCalls ==
    \A t \in Threads :
        pc[t] = "set_targets" /\ pc'[t] = "idle" =>
            /\ targets_' = loc[t].targets
            /\ \A c \in Calls : Done(c)
            /\ \A u \in Threads : ~InLog(u)

CallFindsCurrentList ==
    Len(history') = Len(history) + 1 =>
        history'[Len(history')].targets = targets_

\* C12: set_targets replaces the list as a whole under the lock: a log call
\* that runs while another thread calls set_targets writes to exactly the
\* valid targets of the list before the replacement or to exactly those of
\* the list after it, never to some of each.
C12_SetTargetsAtomic ==
    /\ [](ListFixedDuringLog /\ WritesMatchListFound)
    /\ [][SetTargetsBetweenCalls /\ CallFindsCurrentList]_vars

C12_Witness ==
    /\ Len(history) = 2
    /\ ReturnedCall(1)
    /\ history[1].targets = <<Target("console", "text")>>
    /\ history[2].targets = <<Target("syslog", NULL), Target("syslog", "text")>>
    /\ \E t \in Threads : /\ result.thread # t
                           /\ pc[t] = "log_dispatch"
                           /\ loc[t].call = 2
                           /\ loc[t].i > Len(targets_)
    /\ \E k \in WritesOf(1) : out[k].sink = "console"
    /\ \E k \in WritesOf(2) : out[k].sink = "syslog" /\ out[k].pos = 2

MalformedWritesNothing ==
    \A c \in Calls :
        ~ValidTemplate(history[c].arg) =>
            /\ WritesOf(c) = {}
            /\ Done(c) => history[c].result = Thrown("fmt::format_error", "")
            /\ \A t \in Threads : loc[t].call = c => pc[t] = "log_format"

\* The step that throws hands the error to the call's thread and touches
\* neither the writes nor the targets.
FormatErrorToCaller ==
    \A t \in Threads :
        pc[t] = "log_format" /\ ~ValidTemplate(history[loc[t].call].arg) =>
            \/ UNCHANGED <<pc, loc>>
            \/ /\ pc'[t] = "idle"
               /\ result' = ResultTo(t, Thrown("fmt::format_error", ""))
               /\ UNCHANGED <<targets_, out, lost>>

\* C20: a log call with a malformed template gives its caller the format
\* error and does nothing else: the message is formatted before the loop
\* over the targets, so no formatter is run, no sink is written to and the
\* targets are as they were.
C20_MalformedTemplateNoEffect ==
    /\ []MalformedWritesNothing
    /\ [][FormatErrorToCaller]_vars

C20_Witness ==
    /\ Len(history) = 2
    /\ history[1].result = Returned("ingest step 1")
    /\ history[2].arg.tmpl = <<"bad ", "{">>
    /\ history[2].result = Thrown("fmt::format_error", "")
    /\ ValidPositions(history[2].targets) # {}
    /\ WritesOf(1) # {}
    /\ WritesOf(2) = {}

\* C21: a log call holds the lock for all of its writes, so two log calls
\* on one Logger come in the same order at every sink that gets both: when
\* a write of call A is before a write of call B, no write of B is before a
\* write of A, whichever the targets written to.
C21_SameOrderAtEverySink ==
    \A k1, k2, k3, k4 \in DOMAIN out :
        /\ out[k1].call = out[k3].call
        /\ out[k2].call = out[k4].call
        /\ out[k1].call # out[k2].call
        /\ k1 < k2
        => k3 < k4

C21_Witness ==
    /\ Len(history) = 2
    /\ ReturnedCall(1) /\ ReturnedCall(2)
    /\ Len(out) = 4
    /\ out[1].call = 1 /\ out[2].call = 1 /\ out[3].call = 2 /\ out[4].call = 2
    /\ out[1].sink = "console" /\ out[3].sink = "console"
    /\ out[2].sink = "syslog" /\ out[4].sink = "syslog"

(***************************************************************************)
(* Properties of the metrics                                               *)
(***************************************************************************)
Registered(name) == name \in DOMAIN families_

FinishesAddMetric(t) ==
    pc[t] \in {"add_metric_check", "add_metric_switch"} /\ pc'[t] = "idle"
FinishesReportMetric(t) ==
    pc[t] \in {"report_metric_find", "report_metric_visit"} /\ pc'[t] = "idle"
FinishesVisit(t) == pc[t] = "report_metric_visit" /\ pc'[t] = "idle"

MetricsUntouched ==
    /\ families_' = families_
    /\ histogram_buckets_' = histogram_buckets_
    /\ summary_quantiles_' = summary_quantiles_
    /\ metrics' = metrics

\* No two add_metric calls returned for one name.
RegisteredAtMostOnce ==
    /\ \A i, j \in DOMAIN registered :
           registered[i].name = registered[j].name => i = j
    /\ \A i \in DOMAIN registered :
           /\ Registered(registered[i].name)
           /\ families_[registered[i].name] = registered[i].type

RegistrationOneWay ==
    \A n \in DOMAIN families_ :
        /\ n \in DOMAIN families_'
        /\ families_'[n] = families_[n]
        /\ (n \in DOMAIN histogram_buckets_') = (n \in DOMAIN histogram_buckets_)
        /\ n \in DOMAIN histogram_buckets_ =>
               histogram_buckets_'[n] = histogram_buckets_[n]
        /\ (n \in DOMAIN summary_quantiles_') = (n \in DOMAIN summary_quantiles_)
        /\ n \in DOMAIN summary_quantiles_ =>
               summary_quantiles_'[n] = summary_quantiles_[n]

ReRegistrationFails ==
    \A t \in Threads :
        FinishesAddMetric(t) /\ Registered(loc[t].name) =>
            /\ result'.res = Thrown("std::runtime_error",
                                   "Metric already registered")
            /\ MetricsUntouched

\* C5: a name is registered at most once and stays registered: add_metric on
\* a registered name throws "already registered" whatever type it asks for
\* and changes nothing, and no step takes a registered name's type, buckets
\* or quantiles away or changes them.
C5_RegisteredOnceOneWay ==
    /\ []RegisteredAtMostOnce
    /\ [][RegistrationOneWay /\ ReRegistrationFails]_vars

C5_Witness ==
    /\ result.res = Thrown("std::runtime_error", "Metric already registered")
    /\ Len(registered) = 1
    /\ registered[1].type = "Histogram"
    /\ histogram_buckets_[registered[1].name] = <<1000, 2000>>

\* C6: report_metric on a name that is not registered throws the
\* unknown-metric error, whatever its action, value and label set, and
\* registers nothing and creates no metric.
C6_UnknownMetricFails ==
    [][\A t \in Threads :
           FinishesReportMetric(t) /\ ~Registered(loc[t].name) =>
               /\ result'.res = Thrown("std::runtime_error", "Unknown metric")
               /\ MetricsUntouched]_vars

C6_Witness ==
    /\ result.res = Thrown("std::runtime_error", "Unknown metric")
    /\ Registered("x")
    /\ ~Registered("y")
    /\ nops = 2
    /\ metrics = EmptyMap

\* The actions each type takes, and the error it answers the others with.
AllowedActions(type) ==
    CASE type = "Counter" -> {"Increment"}
      [] type = "Gauge" -> {"Increment", "Decrement", "Set"}
      [] type = "Histogram" -> {"Observe"}
      [] type = "Summary" -> {"Observe"}

InvalidActionError(type) ==
    Thrown("std::invalid_argument",
           CASE type = "Counter" -> "Counter only supports Increment"
             [] type = "Gauge" -> "Invalid action for Gauge"
             [] type = "Histogram" -> "Histogram only supports Observe"
             [] type = "Summary" -> "Summary only supports Observe")

\* C7: report_metric on a registered name returns exactly when the action
\* is one the registered type takes (Counter: Increment; Gauge: Increment,
\* Decrement, Set; Histogram: Observe; Summary: Observe) and otherwise
\* throws the invalid-action error of the type.
C7_ActionAllowedByType ==
    [][\A t \in Threads :
           FinishesReportMetric(t) /\ Registered(loc[t].name) =>
               LET type == families_[loc[t].name]
               IN  IF loc[t].action \in AllowedActions(type)
                   THEN result'.res = Returned("")
                   ELSE result'.res = InvalidActionError(type)]_vars

C7_Witness ==
    /\ result.res = InvalidActionError("Counter")
    /\ \E key \in DOMAIN metrics :
           metrics[key].type = "Counter" /\ metrics[key].value = DefaultValue

\* The value of a label set's metric; a metric starts at 0.
ValueBefore(key) == IF key \in DOMAIN metrics THEN metrics[key].value ELSE 0

OnlyAddressedChanges(key) ==
    /\ DOMAIN metrics' = DOMAIN metrics \cup {key}
    /\ \A k \in DOMAIN metrics : k # key => metrics'[k] = metrics[k]

GaugeChangesByValue(t) ==
    LET key == <<loc[t].name, loc[t].labels>>
        value == loc[t].value
    IN  FinishesVisit(t) /\ result'.res = Returned("")
        /\ families_[loc[t].name] = "Gauge" =>
            /\ OnlyAddressedChanges(key)
            /\ metrics'[key].value =
                   CASE loc[t].action = "Increment" -> ValueBefore(key) + value
                     [] loc[t].action = "Decrement" -> ValueBefore(key) - value
                     [] loc[t].action = "Set" -> value

CounterAddsValue(t) ==
    LET key == <<loc[t].name, loc[t].labels>>
    IN  FinishesVisit(t) /\ result'.res = Returned("")
        /\ families_[loc[t].name] = "Counter" =>
            /\ OnlyAddressedChanges(key)
            /\ metrics'[key].value = ValueBefore(key) + loc[t].value

CounterAddsNonNegativeValue(t) ==
    LET key == <<loc[t].name, loc[t].labels>>
    IN  FinishesVisit(t) /\ result'.res = Returned("")
        /\ families_[loc[t].name] = "Counter" =>
            /\ OnlyAddressedChanges(key)
            /\ metrics'[key].value =
                   IF loc[t].value >= 0 THEN ValueBefore(key) + loc[t].value
                   ELSE ValueBefore(key)

\* C8 as claimed: a report_metric that returns changes the addressed label
\* set by the value, and a Counter's Increment adds it whatever its sign.
C8_AsClaimed ==
    [][\A t \in Threads : GaugeChangesByValue(t) /\ CounterAddsValue(t)]_vars

\* C8: a report_metric that returns changes the metric of the addressed
\* label set by the amount given and no other: on a Gauge Increment adds the
\* value, Decrement subtracts it and Set stores it; on a Counter Increment
\* adds a value that is not negative and leaves the counter as it is for a
\* negative one.
C8_ValueChangesByAmount ==
    [][\A t \in Threads :
           GaugeChangesByValue(t) /\ CounterAddsNonNegativeValue(t)]_vars

C8_Witness ==
    /\ \E key \in DOMAIN metrics :
           metrics[key].type = "Counter" /\ metrics[key].value = 0
    /\ result.res = Returned("")
    /\ nops = 2

\* C9: add_metric of an unregistered name with type Untyped or Info throws
\* "unsupported" and leaves the name unregistered: until an add_metric with
\* a supported type, which then returns and registers the name, a
\* report_metric on the name throws the unknown-metric error.
C9_UnsupportedTypeRejected ==
    [][\A t \in Threads :
           /\ FinishesAddMetric(t) /\ ~Registered(loc[t].name) =>
                  IF loc[t].type \in {"Untyped", "Info"}
                  THEN /\ result'.res = Thrown("std::invalid_argument",
                                              "Unsupported metric type")
                       /\ MetricsUntouched
                       /\ loc[t].name \notin DOMAIN families_'
                  ELSE /\ result'.res = Returned("")
                       /\ loc[t].name \in DOMAIN families_'
                       /\ families_'[loc[t].name] = loc[t].type
           /\ FinishesReportMetric(t) /\ loc[t].name \in rejected
              /\ ~Registered(loc[t].name) =>
                  result'.res = Thrown("std::runtime_error", "Unknown metric")
       ]_vars

C9_Witness ==
    /\ \E n \in rejected : Registered(n)
    /\ Len(registered) = 1
    /\ result.res = Returned("")

\* What is stored for a name, and what its metrics are built with, is what
\* its add_metric was given.
BucketsAsRegistered ==
    \A i \in DOMAIN registered :
        LET r == registered[i]
            instances == {key \in DOMAIN metrics : key[1] = r.name}
        IN  /\ r.type = "Histogram" =>
                   /\ r.name \in DOMAIN histogram_buckets_
                   /\ histogram_buckets_[r.name] = r.buckets
                   /\ \A key \in instances :
                          /\ metrics[key].params = r.buckets
                          /\ Len(metrics[key].counts) = Len(r.buckets) + 1
            /\ r.type = "Summary" =>
                   /\ r.name \in DOMAIN summary_quantiles_
                   /\ summary_quantiles_[r.name] = r.quantiles
                   /\ \A key \in instances : metrics[key].params = r.quantiles
            /\ r.type \notin {"Histogram"} =>
                   r.name \notin DOMAIN histogram_buckets_
            /\ r.type \notin {"Summary"} =>
                   r.name \notin DOMAIN summary_quantiles_

ArgsRegistered(name) ==
    registered[CHOOSE i \in DOMAIN registered : registered[i].name = name]

ObserveUsesRegisteredBuckets ==
    \A t \in Threads :
        FinishesVisit(t) /\ result'.res = Returned("")
        /\ families_[loc[t].name] = "Histogram" =>
            LET key == <<loc[t].name, loc[t].labels>>
                bounds == ArgsRegistered(loc[t].name).buckets
                before == IF key \in DOMAIN metrics THEN metrics[key].counts
                          ELSE [k \in 1..(Len(bounds) + 1) |-> 0]
                bucket == 1 + Cardinality({k \in 1..Len(bounds) :
                                              bounds[k] < loc[t].value})
            IN  metrics'[key].counts = [before EXCEPT ![bucket] = @ + 1]

\* C10: the buckets of a registered histogram and the quantiles of a
\* registered summary are the ones its add_metric was given, for as long as
\* the name is registered, and every metric observed under the name, for
\* whichever label set, is laid out with them and every Observe counts its
\* value in the bucket they give.
C10_BucketsFixedAtRegistration ==
    /\ []BucketsAsRegistered
    /\ [][ObserveUsesRegisteredBuckets]_vars

C10_Witness ==
    \E i \in DOMAIN registered :
        /\ registered[i].type = "Histogram"
        /\ registered[i].buckets = <<1000, 2000>>
        /\ \A l \in LabelSets :
               /\ <<registered[i].name, l>> \in DOMAIN metrics
               /\ metrics[<<registered[i].name, l>>].params = <<1000, 2000>>

\* C22: a report_metric that fails, for an unknown name or for an action
\* the registered type does not take, leaves the metrics as they were,
\* whatever the type: no value is changed and no metric is made for a new
\* label set, a Gauge given Observe included.
C22_FailedReportChangesNothing ==
    [][\A t \in Threads :
           FinishesReportMetric(t) /\ result'.res.kind = "thrown" =>
               MetricsUntouched]_vars

(***************************************************************************)
(* Properties of the mutex                                                 *)
(***************************************************************************)
InOperation(t) == pc[t] # "idle"

\* The mutex is held by the thread inside an operation, and by no one when
\* no thread is inside one.
HeldByTheRunning ==
    /\ m_ # FREE => m_ \in Threads /\ InOperation(m_)
    /\ \A t \in Threads : InOperation(t) => m_ = t

\* Every return and every throw of an operation releases the mutex.
ExitReleases ==
    \A t \in Threads :
        InOperation(t) /\ ~InOperation(t)' =>
            /\ m_' = FREE
            /\ result'.thread = t
            /\ result'.res.kind \in {"returned", "thrown"}

\* All the operations the threads have to make have been made and have
\* finished.
AllOperationsDone ==
    /\ nops = MaxOps
    /\ m_ = FREE
    /\ \A t \in Threads : ~InOperation(t)

\* C17: the mutex is released on every way out of every operation, a throw
\* of log for a malformed template and of add_metric or report_metric
\* included: after a failed call the mutex is free, so whatever calls fail
\* the operations after them get the mutex and finish.
C17_LockReleasedOnEveryExit ==
    /\ []HeldByTheRunning
    /\ [][ExitReleases]_vars
    /\ <>[]AllOperationsDone

C17_Witness ==
    /\ AllOperationsDone
    /\ \E c \in Calls : history[c].result = Thrown("fmt::format_error", "")
    /\ result.res = Thrown("std::runtime_error", "Unknown metric")
    /\ \E i \in DOMAIN registered : TRUE

InMetricOperation(t) ==
    pc[t] \in {"add_metric_check", "add_metric_switch", "report_metric_find",
               "report_metric_visit"}
InTargetMutation(t) ==
    pc[t] \in {"set_formatter", "set_sink", "set_targets", "add_target"}

\* No two threads are inside operations of the Logger, of whichever kinds.
OneInside ==
    /\ Cardinality({t \in Threads :
                        InLog(t) \/ InTargetMutation(t)
                        \/ InMetricOperation(t)}) <= 1
    /\ \A t, u \in Threads :
           InMetricOperation(t) /\ t # u =>
               ~InLog(u) /\ ~InTargetMutation(u) /\ ~InMetricOperation(u)

\* What the Logger holds is changed by the one thread inside an operation.
ChangedFromInside ==
    \/ UNCHANGED <<targets_, out, families_, histogram_buckets_,
                   summary_quantiles_, metrics>>
    \/ \E t \in Threads :
           /\ m_ = t
           /\ InLog(t) \/ InTargetMutation(t) \/ InMetricOperation(t)
           /\ \A u \in Threads \ {t} : pc[u] = "idle" /\ pc'[u] = "idle"

\* C18: on one Logger at most one operation is inside its critical section:
\* add_metric and report_metric do not run while a log call, a change of
\* the targets or another metric operation is running, nor these while a
\* metric operation is.
C18_OneOperationInCriticalSection ==
    /\ []OneInside
    /\ [][ChangedFromInside]_vars

C18_Witness ==
    /\ \E t \in Threads : /\ pc[t] = "report_metric_visit"
                           /\ result.thread # t
                           /\ result.res = Returned("")
    /\ Len(registered) = 1
    /\ \E c \in Calls : Done(c)

(***************************************************************************)
(* Properties of the singleton and of Config                               *)
(***************************************************************************)
WarningText ==
    "Logger not initialized. Defaulting to console sink and text format."

Made == DOMAIN loggers
MadeByInstance == {i \in Made : loggers[i].by.op = "instance"}
MadeByInit == Made \ MadeByInstance
WarningsOf(i) ==
    {k \in DOMAIN loggers[i].records :
        loggers[i].records[k].message = WarningText}
RECURSIVE Warnings(_)
Warnings(n) == IF n = 0 THEN 0 ELSE Cardinality(WarningsOf(n)) + Warnings(n - 1)

\* The Logger instance() makes, and what it has dispatched.
AutoInitLogger(i) ==
    LET l == loggers[i]
    IN  /\ l.targets = <<Target("console", "text")>>
        /\ l.app_name = "DawgLog"
        /\ l.records # <<>> =>
               /\ l.records[1].message = WarningText
               /\ l.records[1].level = "WARNING"
               /\ l.out # <<>>
               /\ l.out[1].rec = l.records[1]
               /\ l.out[1].sink = "console"
        /\ Cardinality(WarningsOf(i)) <= 1
        /\ (\E k \in DOMAIN accesses : accesses[k].ref = i) =>
               Cardinality(WarningsOf(i)) = 1

\* Until an init, every access returns the Logger the first access made, and
\* only the first access made one.
AccessesShareInstance ==
    MadeByInit = {} =>
        \A k \in DOMAIN accesses :
            /\ accesses[k].ref \in MadeByInstance
            /\ accesses[k].ref = accesses[1].ref
            /\ accesses[k].created = (k = 1)

\* C13: an instance() call before any init, with no other thread inside
\* instance() or init meanwhile, makes a Logger with the one target
\* console + text and the app name "DawgLog"; the first Record that Logger
\* dispatches is the auto-init warning, which is emitted once; the later
\* instance() calls return that Logger and emit nothing.
C13_AutoInitWarnsFirst ==
    ~overlapped =>
        /\ \A i \in MadeByInstance : i = 1 /\ AutoInitLogger(i)
        /\ AccessesShareInstance
        /\ Warnings(Len(loggers)) <= 1

C13_Witness ==
    /\ ~overlapped
    /\ Len(accesses) = 2
    /\ accesses[1] = [ref |-> 1, created |-> TRUE]
    /\ accesses[2] = [ref |-> 1, created |-> FALSE]
    /\ Len(loggers[1].records) = 2
    /\ loggers[1].records[1].message = WarningText
    /\ loggers[1].records[2].message = "ingest step 1"

\* What each init overload must install, written out from its arguments.
SinkOfType(type) ==
    CASE type = "CONSOLE" -> "console" [] type = "SYSLOG" -> "syslog"
FormatterOfType(type) ==
    CASE type = "TEXT" -> "text" [] type = "JSON" -> "json"

InstalledTargets(by) ==
    CASE by.op = "init1" ->
             <<Target(SinkOfType(by.cfg.sink), FormatterOfType(by.cfg.format))>>
      [] by.op = "init2" ->
             <<Target(SinkOfType(by.cfg.sink), by.formatter)>>
      [] by.op = "init3" ->
             <<Target(by.sink, FormatterOfType(by.cfg.format))>>
      [] by.op = "init4" -> <<Target(by.sink, by.formatter)>>
      [] by.op = "init5" -> by.targets

InitInstallsAsGiven ==
    /\ \A i \in MadeByInit :
           /\ loggers[i].targets = InstalledTargets(loggers[i].by)
           /\ loggers[i].app_name = loggers[i].by.cfg.app_name
           /\ loggers[i].by.op \in {"init1", "init2", "init3", "init4"} =>
                  Len(loggers[i].targets) = 1
    /\ logger # 0 => logger = Len(loggers) /\ loggers[logger].alive
    /\ \A i \in Made : i # logger => ~loggers[i].alive
    /\ ~overlapped /\ MadeByInit # {} =>
           /\ logger \in MadeByInit
           /\ \A i \in MadeByInit : WarningsOf(i) = {}

\* A step of init: the new Logger is the singleton and the one before it is
\* destroyed.
InitReplaces ==
    Len(loggers') = Len(loggers) + 1
    /\ loggers'[Len(loggers')].by.op # "instance" =>
        /\ logger' = Len(loggers')
        /\ loggers'[logger'].alive
        /\ loggers'[logger'].records = <<>>
        /\ \A i \in Made :
               loggers'[i] = [loggers[i] EXCEPT !.alive = FALSE]

\* An instance() call that finds a Logger installed returns the installed
\* one and dispatches nothing.
AccessAfterInstall ==
    \A t \in Threads :
        /\ pc[t] = "idle" /\ pc'[t] \in {"instance_create", "instance_return"}
           /\ logger # 0 =>
               pc'[t] = "instance_return" /\ loggers' = loggers
        /\ pc[t] = "instance_return" /\ pc'[t] = "idle" /\ ~loc[t].created =>
               /\ accesses' = Append(accesses, [ref |-> logger,
                                                 created |-> FALSE])
               /\ loc'[t].ref = logger
               /\ logger' = logger
               /\ loggers' = loggers

\* C14: each of the five init overloads installs a new Logger as the
\* singleton in place of the one before, with the app name of the Config;
\* overloads 1 to 4 give it one target, whose halves are the ones passed and
\* otherwise the ones the Config names, overload 5 the list passed; an
\* instance() call after an init returns the installed Logger and emits no
\* auto-init warning.
C14_InitInstallsSingleton ==
    /\ []InitInstallsAsGiven
    /\ [][InitReplaces /\ AccessAfterInstall]_vars

C14_Witness ==
    /\ logger = 1
    /\ loggers[1].by.op = "init3"
    /\ loggers[1].by.cfg = Config("CONSOLE", "JSON", "DawgLog")
    /\ loggers[1].targets = <<Target("syslog", "json")>>
    /\ loggers[1].records = <<>>
    /\ accesses = <<[ref |-> 1, created |-> FALSE]>>

\* The Config the construction from a file must give.
SinkTypeOf(str) ==
    CASE str = "console" -> "CONSOLE" [] str = "syslog" -> "SYSLOG"
FormatterTypeOf(str) ==
    CASE str = "text" -> "TEXT" [] str = "json" -> "JSON"

DefaultConfig == Config("CONSOLE", "TEXT", "DawgLog")

ExpectedConfig(file) ==
    IF ~file.open \/ file.kind # "object" THEN DefaultConfig
    ELSE Config(IF "sink" \in DOMAIN file.obj
                THEN SinkTypeOf(file.obj["sink"]) ELSE "CONSOLE",
                IF "format" \in DOMAIN file.obj
                THEN FormatterTypeOf(file.obj["format"]) ELSE "TEXT",
                IF "app_name" \in DOMAIN file.obj
                THEN file.obj["app_name"] ELSE "DawgLog")

\* C15: constructing a Config never fails and gives a Config with every
\* field set: the defaults console, text, "DawgLog" for a file that cannot
\* be opened and equally for one that cannot be parsed, and the default of
\* every key a parsed file lacks.
C15_ConfigNeverFails ==
    [][\A t \in Threads :
           /\ pc[t] = "config_parse" /\ pc'[t] = "idle" =>
                  /\ result'.res = Returned("Config")
                  /\ loc'[t].cfg = ExpectedConfig(loc[t].file)
           /\ pc[t] = "idle" /\ pc' = pc /\ nops' = nops + 1
              /\ result' = ResultTo(t, Returned("Config")) =>
                  loc'[t].cfg = DefaultConfig]_vars

\* C19: of the instance() calls several threads make before any init, one
\* makes the Logger and emits the warning, all return that one Logger, and
\* no other first call destroys it.
C19_OneInstanceForConcurrentAccess ==
    MadeByInit = {} =>
        /\ Cardinality(MadeByInstance) <= 1
        /\ Warnings(Len(loggers)) <= 1
        /\ \A k \in DOMAIN accesses :
               /\ accesses[k].ref = accesses[1].ref
               /\ loggers[accesses[k].ref].alive

====
